---- MODULE Spec2Model ----
(***************************************************************************)
(* unity-batchmode-mcp: runUnityTests and the run_unity_tests tool.        *)
(*                                                                         *)
(* Text is a sequence of tokens.  A token is a piece of text that no       *)
(* pattern of the program can split: the characters > and " and every      *)
(* white-space character are tokens of their own, and a literal of a       *)
(* pattern is a sequence of whole tokens.  The text a sequence stands for  *)
(* is the concatenation of its tokens.                                     *)
(***************************************************************************)
EXTENDS Integers, Sequences, FiniteSets, TLC

\* ------------------------------------------------------------------ bounds
MaxRuns == 2          \* invocations of the tool in one behaviour
MaxExit == 1          \* the child's exit codes are 0..MaxExit, or null
MaxElems == 2         \* markup elements in a results document
MaxOver == 50         \* matching log lines beyond the grep cap
MaxChunks == 1        \* data events per output stream of a child

\* ------------------------------------------------------- program constants
GrepMax == 200        \* const max = 200
TailMax == 1000       \* tail(text, max = 1000)

\* ------------------------------------------------------------ text helpers
WS == {" ", "\n", "\r", "\t"}
Digits == {"0", "1", "2", "3", "4", "5", "6", "7", "8", "9"}

\* The literal lit stands in s at position i.
LitAt(s, i, lit) ==
  /\ i >= 1
  /\ i + Len(lit) - 1 <= Len(s)
  /\ \A k \in 1..Len(lit) : s[i + k - 1] = lit[k]

\* The first position >= i of s that holds tok; Len(s) + 1 when there is none.
FirstTok(s, i, tok) ==
  IF \E k \in i..Len(s) : s[k] = tok
  THEN CHOOSE k \in i..Len(s) : s[k] = tok /\ \A j \in i..(k - 1) : s[j] # tok
  ELSE Len(s) + 1

\* The first position >= i of s where lit stands; 0 when there is none.
FirstLit(s, i, lit) ==
  IF \E k \in i..Len(s) : LitAt(s, k, lit)
  THEN CHOOSE k \in i..Len(s) : LitAt(s, k, lit) /\ \A j \in i..(k - 1) : ~LitAt(s, j, lit)
  ELSE 0

MaxOf(S) == CHOOSE x \in S : \A y \in S : y <= x
MinOf(S) == CHOOSE x \in S : \A y \in S : x <= y

RECURSIVE Flatten(_)
Flatten(ss) == IF ss = <<>> THEN <<>> ELSE Head(ss) \o Flatten(Tail(ss))

\* Array.prototype.join: ss[a], sep, ..., sep, ss[b], built by halves so that
\* the depth of the recursion stays small on long arrays
RECURSIVE JoinRange(_, _, _, _)
JoinRange(ss, a, b, sep) ==
  IF a > b THEN <<>>
  ELSE IF a = b THEN ss[a]
  ELSE JoinRange(ss, a, (a + b) \div 2, sep) \o sep \o JoinRange(ss, (a + b) \div 2 + 1, b, sep)
Join(ss, sep) == JoinRange(ss, 1, Len(ss), sep)

\* String.prototype.trim
RECURSIVE TrimLeft(_)
TrimLeft(s) == IF s # <<>> /\ Head(s) \in WS THEN TrimLeft(Tail(s)) ELSE s
RECURSIVE TrimRight(_)
TrimRight(s) ==
  IF s # <<>> /\ s[Len(s)] \in WS THEN TrimRight(SubSeq(s, 1, Len(s) - 1)) ELSE s
Trim(s) == TrimRight(TrimLeft(s))

\* ------------------------------------------------- the patterns of stage 1-4
\* xml.match(/<test-run [^>]+>/): the match, or <<>> for null.
HeaderEnd(s, i) ==
  IF LitAt(s, i, <<"<test-run", " ">>)
  THEN LET e == FirstTok(s, i + 2, ">")
       IN IF e <= Len(s) /\ e >= i + 3 THEN e ELSE 0
  ELSE 0
HeaderMatch(xml) ==
  LET starts == {k \in 1..Len(xml) : HeaderEnd(xml, k) # 0}
  IN IF starts # {}
     THEN SubSeq(xml, MinOf(starts), HeaderEnd(xml, MinOf(starts)))
     ELSE <<>>

\* (\d+)" at position a: the position of the closing quote, or 0.
DigitsEnd(s, a) ==
  LET q == MinOf({k \in a..(Len(s) + 1) : k = Len(s) + 1 \/ s[k] \notin Digits})
  IN IF q > a /\ q <= Len(s) /\ s[q] = "\"" THEN q ELSE 0

\* attr="(\d+)" at position p: the position of the closing quote, or 0.
NumAttrEnd(s, p, attr) ==
  IF LitAt(s, p, <<attr, "\"">>) THEN DigitsEnd(s, p + 2) ELSE 0

\* xml.match(/<test-run[^>]+total="(\d+)"[^>]+failed="(\d+)"/) tried at
\* position i: the pairs <<p, r>> of places of total=" and failed=" that match.
TotalPlaces(s, i) ==
  IF i <= Len(s) /\ s[i] = "<test-run"
  THEN LET e == FirstTok(s, i + 1, ">")
           ps == {p \in (i + 2)..(e - 1) : NumAttrEnd(s, p, "total=") # 0}
           rs == {r \in (i + 2)..(e - 1) :
                    NumAttrEnd(s, r, "failed=") # 0 /\ NumAttrEnd(s, r, "failed=") < e}
       IN {pr \in ps \X rs : pr[2] >= NumAttrEnd(s, pr[1], "total=") + 2}
  ELSE {}
\* The groups <<total, failed>> of the match, or <<>> for null.  Each [^>]+
\* is greedy: the last total=" of the tag that a failed=" can follow, and
\* then the last such failed=".
TotalMatch(xml) ==
  LET starts == {k \in 1..Len(xml) : xml[k] = "<test-run" /\ TotalPlaces(xml, k) # {}}
  IN IF starts # {}
     THEN LET P == TotalPlaces(xml, MinOf(starts))
              p == MaxOf({pr[1] : pr \in P})
              r == MaxOf({pr[2] : pr \in {x \in P : x[1] = p}})
          IN << SubSeq(xml, p + 2, NumAttrEnd(xml, p, "total=") - 1),
                SubSeq(xml, r + 2, NumAttrEnd(xml, r, "failed=") - 1) >>
     ELSE <<>>

\* /<test-case[^>]*result="Failed"[^>]*>/ tried at position i: the position
\* of the closing >, or 0.
CaseTagEnd(s, i) ==
  IF i <= Len(s) /\ s[i] = "<test-case"
  THEN LET e == FirstTok(s, i + 1, ">")
       IN IF e <= Len(s)
             /\ \E p \in (i + 1)..(e - 4) :
                  LitAt(s, p, <<"result=", "\"", "Failed", "\"">>)
          THEN e ELSE 0
  ELSE 0
\* xml.match(/.../g) || []: the matches from position i on, in order.
RECURSIVE FailedCasesFrom(_, _)
FailedCasesFrom(s, i) ==
  IF i > Len(s) THEN <<>>
  ELSE IF CaseTagEnd(s, i) # 0
       THEN <<SubSeq(s, i, CaseTagEnd(s, i))>> \o FailedCasesFrom(s, CaseTagEnd(s, i) + 1)
       ELSE FailedCasesFrom(s, i + 1)
FailedCases(xml) == FailedCasesFrom(xml, 1)

\* line.match(/name="([^"]*)"/): <<group 1>>, or <<>> for null.
NameStart(line, p) ==
  LitAt(line, p, <<"name=", "\"">>) /\ FirstTok(line, p + 2, "\"") <= Len(line)
NameMatch(line) ==
  LET starts == {k \in 1..Len(line) : NameStart(line, k)}
  IN IF starts # {}
     THEN <<SubSeq(line, MinOf(starts) + 2, FirstTok(line, MinOf(starts) + 2, "\"") - 1)>>
     ELSE <<>>

\* /<failure>[\s\S]*?<\/failure>/ tried at position i: the position of the
\* last token of the match, or 0.
FailureEnd(s, i) ==
  IF LitAt(s, i, <<"<failure", ">">>) /\ FirstLit(s, i + 2, <<"</failure", ">">>) # 0
  THEN FirstLit(s, i + 2, <<"</failure", ">">>) + 1
  ELSE 0
RECURSIVE FailuresFrom(_, _)
FailuresFrom(s, i) ==
  IF i > Len(s) THEN <<>>
  ELSE IF FailureEnd(s, i) # 0
       THEN <<SubSeq(s, i, FailureEnd(s, i))>> \o FailuresFrom(s, FailureEnd(s, i) + 1)
       ELSE FailuresFrom(s, i + 1)
Failures(xml) == FailuresFrom(xml, 1)

\* f.match(/<tag><!\[CDATA\[([\s\S]*?)\]\]><\/tag>/): <<group 1>>, or <<>>.
CDataOpen(tag) == <<"<" \o tag, ">", "<![CDATA[">>
CDataClose(tag) == <<"]]", ">", "</" \o tag, ">">>
CDataStart(f, p, tag) ==
  LitAt(f, p, CDataOpen(tag)) /\ FirstLit(f, p + 3, CDataClose(tag)) # 0
CDataMatch(f, tag) ==
  LET starts == {k \in 1..Len(f) : CDataStart(f, k, tag)}
  IN IF starts # {}
     THEN <<SubSeq(f, MinOf(starts) + 3, FirstLit(f, MinOf(starts) + 3, CDataClose(tag)) - 1)>>
     ELSE <<>>

\* ------------------------------------------------------ files and read results
\* A file is absent, or holds text.  The text of the results document is kept
\* as a sequence of chunks (its text is their concatenation) and the text of the
\* log as lines joined by a line ending; by names the run whose child wrote it.
NoResults == [present |-> FALSE, chunks |-> <<>>, by |-> 0]
NoLog == [present |-> FALSE, lines |-> <<>>, eol |-> <<>>, by |-> 0]

\* await fs.readFile(resultsPath, "utf8"): the text, or the rejection.
ReadResultsFile(file) ==
  IF file.present THEN [st |-> "ok", chunks |-> file.chunks, by |-> file.by]
  ELSE [st |-> "error", chunks |-> <<>>, by |-> 0]
ReadLogFile(file) ==
  IF file.present THEN [st |-> "ok", lines |-> file.lines, eol |-> file.eol, by |-> file.by]
  ELSE [st |-> "error", lines |-> <<>>, eol |-> <<>>, by |-> 0]
Unread == [st |-> "unread", chunks |-> <<>>, by |-> 0]
UnreadLog == [st |-> "unread", lines |-> <<>>, eol |-> <<>>, by |-> 0]

XmlText(read) == Flatten(read.chunks)
LogTextOf(read) == Join(read.lines, read.eol)

\* ------------------------------------------------------- stages 1-4 (try block)
HeaderSection(xml) ==
  IF HeaderMatch(xml) # <<>> THEN HeaderMatch(xml) \o <<"\n">> ELSE <<>>

TotalsSection(xml) ==
  IF TotalMatch(xml) # <<>>
  THEN <<"Total: ">> \o TotalMatch(xml)[1] \o <<", Failed: ">> \o TotalMatch(xml)[2] \o <<"\n">>
  ELSE <<>>

\* CaseLines without its guard: a line for every failed tag, the name empty
\* when the tag has none
RECURSIVE CaseLines_NoGuard(_)
CaseLines_NoGuard(cases) ==
  IF cases = <<>> THEN <<>>
  ELSE <<"  - ">>
       \o (IF NameMatch(Head(cases)) # <<>> THEN NameMatch(Head(cases))[1] ELSE <<>>)
       \o <<"\n">> \o CaseLines_NoGuard(Tail(cases))

\* for (const line of failedCases) { if (name) summary += `  - ${name[1]}\n` }
RECURSIVE CaseLines(_)
CaseLines(cases) ==
  IF cases = <<>> THEN <<>>
  ELSE (IF NameMatch(Head(cases)) # <<>>
        THEN <<"  - ">> \o NameMatch(Head(cases))[1] \o <<"\n">>
        ELSE <<>>) \o CaseLines(Tail(cases))

FailedCasesSection(xml) ==
  IF Len(FailedCases(xml)) > 0
  THEN <<"Failed cases (", ToString(Len(FailedCases(xml))), "):\n">> \o CaseLines(FailedCases(xml))
  ELSE <<>>

GenericMessage == <<"One or more child tests had errors">>

\* Qualifies without the comparison with the generic message
Qualifies_AnyMessage(f) ==
  /\ CDataMatch(f, "message") # <<>>
  /\ Trim(CDataMatch(f, "message")[1]) # <<>>

\* msg && msg[1].trim() && msg[1].trim() !== "One or more child tests had errors"
Qualifies(f) ==
  /\ CDataMatch(f, "message") # <<>>
  /\ Trim(CDataMatch(f, "message")[1]) # <<>>
  /\ Trim(CDataMatch(f, "message")[1]) # GenericMessage

FailureDetail(f) ==
  <<"\nFailure message: ">> \o Trim(CDataMatch(f, "message")[1]) \o <<"\n">>
  \o (IF CDataMatch(f, "stack-trace") # <<>>
      THEN <<"Stack: ">> \o Trim(CDataMatch(f, "stack-trace")[1]) \o <<"\n">>
      ELSE <<>>)

\* for (const f of failures) { if (...) { ...; break } }
RECURSIVE FirstFailure(_)
FirstFailure(fs) ==
  IF fs = <<>> THEN <<>>
  ELSE IF Qualifies(Head(fs)) THEN FailureDetail(Head(fs))
  ELSE FirstFailure(Tail(fs))

FailureSection(xml) == FirstFailure(Failures(xml))

ParseResults(xml) ==
  HeaderSection(xml) \o TotalsSection(xml) \o FailedCasesSection(xml) \o FailureSection(xml)

NoResultsNotice == <<"No results.xml found or failed to parse.\n">>

\* ResultsSection with an empty catch block
ResultsSection_EmptyCatch(read) ==
  IF read.st = "ok" THEN ParseResults(XmlText(read)) ELSE <<>>

\* try { ... } catch { summary += "No results.xml found or failed to parse.\n" }
ResultsSection(read) ==
  IF read.st = "ok" THEN ParseResults(XmlText(read)) ELSE NoResultsNotice

\* ------------------------------------------------------------- stages 5 and 6
Footer(path, code) ==
  <<"\nLog: ", path, "\nExit code: ", ToString(code)>>

\* (text.length > max ? text.slice(-max) : text); every token of an output
\* stream is one character.
TailOf(text) ==
  IF Len(text) > TailMax THEN SubSeq(text, Len(text) - TailMax + 1, Len(text)) ELSE text

TailSection(label, buf) ==
  IF Trim(buf) # <<>> THEN <<"\n\n[" \o label \o " tail]\n">> \o TailOf(buf) ELSE <<>>

\* SummaryAfterResults with the footer inside the try block
SummaryAfterResults_FooterInTry(read, path, code, out, err) ==
  (IF read.st = "ok" THEN ParseResults(XmlText(read)) \o Footer(path, code)
   ELSE NoResultsNotice)
  \o TailSection("stdout", out) \o TailSection("stderr", err)

SummaryAfterResults(read, path, code, out, err) ==
  ResultsSection(read) \o Footer(path, code)
  \o TailSection("stdout", out) \o TailSection("stderr", err)

\* -------------------------------------------------------------------- stage 7
\* the log read whatever the exit code
ShouldGrep_Always(code) == TRUE
\* if (exitCode !== 0)
ShouldGrep(code) == code # 0

\* logText.split(/\r?\n/) on s[a..b].  Every \n is a separator, together with
\* a \r right before it; the text is cut at a separator near its middle so that
\* the depth of the recursion stays small on long logs.
RECURSIVE SplitRange(_, _, _)
SplitRange(s, a, b) ==
  LET nl == {k \in a..b : s[k] = "\n"}
  IN IF nl = {} THEN <<SubSeq(s, a, b)>>
     ELSE LET mid == (a + b) \div 2
              n == IF \E k \in nl : k >= mid THEN MinOf({k \in nl : k >= mid}) ELSE MaxOf(nl)
          IN SplitRange(s, a, IF n > a /\ s[n - 1] = "\r" THEN n - 2 ELSE n - 1)
             \o SplitRange(s, n + 1, b)
SplitLines(s) == SplitRange(s, 1, Len(s))

\* toLowerCase; the letters e, r, o occur in a log only in these words.
Lower(tok) ==
  IF tok \in {"Error", "ERROR"} THEN "error"
  ELSE IF tok \in {"Info", "INFO"} THEN "info"
  ELSE tok
\* line.toLowerCase().includes("error")
IncludesError(line) == \E k \in 1..Len(line) : Lower(line[k]) = "error"

ErrorLines(lines) == SelectSeq(lines, IncludesError)

\* TailErrors with slice(0, max): the first lines instead of the last
TailErrors_Head(errorLines) ==
  IF Len(errorLines) > GrepMax THEN SubSeq(errorLines, 1, GrepMax) ELSE errorLines

\* errorLines.length > max ? errorLines.slice(-max) : errorLines
TailErrors(errorLines) ==
  IF Len(errorLines) > GrepMax
  THEN SubSeq(errorLines, Len(errorLines) - GrepMax + 1, Len(errorLines))
  ELSE errorLines

GrepHeader(shown, total) ==
  <<"\n\n[log grep -i 'error' (", ToString(shown), "/", ToString(total), " matches)]\n">>
GrepNone == <<"\n\n[log grep -i 'error']\nNo 'error' lines found.">>
\* String(e) of the rejection of fs.readFile for a path that names no file
ReadError(path) == <<"Error: ENOENT: no such file or directory, open '", path, "'">>
GrepFailed(path) ==
  <<"\n\n[log grep -i 'error']\nFailed to read log file: ">> \o ReadError(path)

GrepSection(read, path) ==
  IF read.st = "ok"
  THEN LET errorLines == ErrorLines(SplitLines(LogTextOf(read)))
       IN IF Len(errorLines) > 0
          THEN GrepHeader(Len(TailErrors(errorLines)), Len(errorLines))
               \o Join(TailErrors(errorLines), <<"\n">>)
          ELSE GrepNone
  ELSE GrepFailed(path)

\* NullishExit with code ?? 1: a child that a signal ended counts as failed
NullishExit_One(code) == IF code = <<>> THEN 1 ELSE code[1]

\* child.on("close", (code) => resolve(code ?? 0)); a code is <<n>>, null is <<>>.
NullishExit(code) == IF code = <<>> THEN 0 ELSE code[1]

\* the tool's response: { content: [{ type: "text", text: summary }], isError }
ToolResponse(text, code) ==
  [sent |-> TRUE, text |-> text, isError |-> (code # 0)]
NoResponse == [sent |-> FALSE, text |-> <<>>, isError |-> FALSE]

\* ---------------------------------------------------------------- the inputs
Q == "\""
\* <test-run total="5" failed="2">
HdrBoth == <<"<test-run", " ", "total=", Q, "5", Q, " ", "failed=", Q, "2", Q, ">">>
\* <test-run failed="1" total="7">
HdrSwap == <<"<test-run", " ", "failed=", Q, "1", Q, " ", "total=", Q, "7", Q, ">">>
\* a header with a line break and doubled blanks inside the tag, and two digits
HdrWide == <<"<test-run", "\n", " ", "total=", Q, "1", "2", Q, " ", " ", "failed=", Q, "0", Q, " ", ">">>
\* <test-run id="3">
HdrBare == <<"<test-run", " ", "id=", Q, "3", Q, ">">>
\* <test-case name="A" result="Failed">
CaseA == <<"<test-case", " ", "name=", Q, "A", Q, " ", "result=", Q, "Failed", Q, ">">>
\* <test-case result="Failed"  name="B" >
CaseB == <<"<test-case", " ", "result=", Q, "Failed", Q, " ", " ", "name=", Q, "B", Q, " ", ">">>
\* <test-case result="Failed">
CaseAnon == <<"<test-case", " ", "result=", Q, "Failed", Q, ">">>
\* <test-case name="C" result="Passed">
CasePass == <<"<test-case", " ", "name=", Q, "C", Q, " ", "result=", Q, "Passed", Q, ">">>

FailureBlock(msg, stack) ==
  <<"<failure", ">">> \o CDataOpen("message") \o msg \o CDataClose("message")
  \o stack \o <<"</failure", ">">>
StackOf(text) == CDataOpen("stack-trace") \o text \o CDataClose("stack-trace")
FailGeneric == FailureBlock(<<" ">> \o GenericMessage \o <<"\n">>, <<>>)
FailBoom == FailureBlock(<<" ", "boom", "\n">>, StackOf(<<"at", " ", "X", "\n">>))
FailOops == FailureBlock(<<"oops">>, <<>>)
FailBlank == FailureBlock(<<" ", "\n">>, StackOf(<<"at", " ", "Y">>))

Headers == {HdrBoth, HdrSwap, HdrWide, HdrBare}
Cases == {CaseA, CaseB, CaseAnon, CasePass}
Blocks == {FailGeneric, FailBoom, FailOops, FailBlank}
Elements == Headers \cup Cases \cup Blocks

\* the results documents of at most MaxElems elements
XmlDocs == UNION {[1..n -> Elements] : n \in 0..MaxElems}
\* two documents for the runs that are told apart by their writer
FewDocs == {<<HdrBoth>>, <<HdrWide, CaseA, FailBoom>>}
OneDoc == {<<HdrBoth, CaseA, FailBoom>>}

\* line k of a log: one that holds the word in some case, or one that does not
ErrWord(k) == IF k % 3 = 0 THEN "ERROR" ELSE IF k % 3 = 1 THEN "error" ELSE "Error"
ErrLine(k) == <<"x", " ", ErrWord(k), " ", ToString(k)>>
InfoLine(k) == <<"Info", " ", ToString(k)>>
\* m matching lines; with gap, a line that does not match before each of them
\* and after the last, and a last empty line (the text ends with a line
\* ending); the empty text is one empty line
LogLines(m, gap) ==
  IF m = 0 /\ ~gap THEN << <<>> >>
  ELSE IF gap
  THEN [k \in 1..(2 * m + 2) |->
          IF k = 2 * m + 2 THEN <<>> ELSE IF k % 2 = 0 THEN ErrLine(k \div 2) ELSE InfoLine(k)]
  ELSE [k \in 1..m |-> ErrLine(k)]
MatchCounts == {0, 1, GrepMax, GrepMax + 1, GrepMax + MaxOver}
\* the logs: lines that all match joined by \n, or every other one by \r\n
Logs == {[lines |-> LogLines(m, FALSE), eol |-> <<"\n">>] : m \in MatchCounts}
        \cup {[lines |-> LogLines(m, TRUE), eol |-> <<"\r", "\n">>] : m \in MatchCounts}
FewLogs == {[lines |-> LogLines(2, TRUE), eol |-> <<"\n">>]}

\* the chunks of an output stream; every token is one character
Xs(n) == [k \in 1..n |-> "x"]
OutChunks == {<<" ", "\n">>, <<"o", "k">> \o Xs(TailMax)}

\* close codes: <<n>>, or <<>> for a child that a signal ended
CloseCodes == {<<>>} \cup {<<n>> : n \in 0..MaxExit}

\* resolveUnityEditorPath(), resolveUnityProjectPath(): a path, or "" for
\* undefined; /NoEditor names no file
Configs == {<<"/Unity", "/proj">>, <<"", "/proj">>, <<"/Unity", "">>, <<"", "">>,
            <<"/NoEditor", "/proj">>}
\* the editor paths that the system can execute
Executable(path) == path = "/Unity"

\* params: a text is a sequence of tokens, <<>> for undefined or ""
Nul == "\\0"
Params == {[platform |-> <<>>, filter |-> <<>>],
           [platform |-> <<>>, filter |-> <<" ">>],
           [platform |-> <<"PlayMode">>, filter |-> <<"A">>],
           [platform |-> <<>>, filter |-> <<"a", Nul, "b">>]}
FewParams == {[platform |-> <<>>, filter |-> <<>>],
              [platform |-> <<"PlayMode">>, filter |-> <<"a", Nul, "b">>]}

\* const platform = params.platform ?? "EditMode"
PlatformOf(params) == IF params.platform = <<>> THEN <<"EditMode">> ELSE params.platform
\* const args = [...]; if (params.filter && params.filter.trim().length > 0)
\* args.push("-testFilter", params.filter).  Every argument is a text.
ArgsOf(project, params) ==
  << <<"--burst-force-sync-compilation">>, <<"-burst-force-sync-compilation">>,
     <<"-runTests">>, <<"-batchmode">>, <<"-projectPath">>, <<project>>,
     <<"-testPlatform">>, PlatformOf(params),
     <<"-testResults">>, <<project \o "/results.xml">>,
     <<"-logFile">>, <<project \o "/batch.log">> >>
  \o (IF params.filter # <<>> /\ Len(Trim(params.filter)) > 0
      THEN << <<"-testFilter">>, params.filter >> ELSE <<>>)
\* spawn() rejects an argument that holds a null byte
HasNul(list) == \E k \in 1..Len(list) : \E j \in 1..Len(list[k]) : list[k][j] = Nul

\* what runUnityTests throws
NoError == ""
MissingEditor == "Missing Unity editor path. Provide via --unity-editor or UNITY_EDITOR_PATH."
MissingProject == "Missing Unity project path. Provide via --project or UNITY_PROJECT_PATH."
InvalidArg == "TypeError [ERR_INVALID_ARG_VALUE]"

\* the two files when the server starts: absent, or left at the fixed paths
\* by an earlier process (by = 0)
InitialResults ==
  {NoResults, [present |-> TRUE, chunks |-> <<HdrBoth>>, by |-> 0]}
InitialLogs ==
  {NoLog, [present |-> TRUE, lines |-> LogLines(1, FALSE), eol |-> <<"\n">>, by |-> 0]}

Runs == 1..MaxRuns

\* ---------------------------------------------------------------- the state
VARIABLES
  config,       \* <<unityEditorPath, unityProjectPath>>
  alive,        \* the server process runs
  args,         \* args of each invocation
  thrown,       \* what each invocation threw
  results,      \* the file at resultsPath
  logFile,      \* the file at logPath
  pc,           \* where each invocation stands
  wrote,        \* what the child of each invocation has written as results:
                \* <<>> for nothing yet, <<doc>> for the document doc
  stdoutBuf,    \* the chunks of child.stdout, in order
  stderrBuf,    \* the chunks of child.stderr, in order
  closeCode,    \* the code of the close event
  exitCode,     \* exitCode
  xml,          \* what the read of resultsPath gave
  logText,      \* what the read of logPath gave
  summary,      \* summary
  response      \* what the tool handler returned

vars == <<config, alive, args, thrown, results, logFile, pc, wrote, stdoutBuf, stderrBuf, closeCode,
          exitCode, xml, logText, summary, response>>

unityEditorPath == config[1]
unityProjectPath == config[2]
\* path.resolve(unityProjectPath, "batch.log")
logPath == unityProjectPath \o "/batch.log"

Init ==
  /\ config \in Configs
  /\ alive = TRUE
  /\ args = [i \in Runs |-> <<>>]
  /\ thrown = [i \in Runs |-> NoError]
  /\ results \in InitialResults
  /\ logFile \in InitialLogs
  /\ pc = [i \in Runs |-> "idle"]
  /\ wrote = [i \in Runs |-> <<>>]
  /\ stdoutBuf = [i \in Runs |-> <<>>]
  /\ stderrBuf = [i \in Runs |-> <<>>]
  /\ closeCode = [i \in Runs |-> <<>>]
  /\ exitCode = [i \in Runs |-> 0]
  /\ xml = [i \in Runs |-> Unread]
  /\ logText = [i \in Runs |-> UnreadLog]
  /\ summary = [i \in Runs |-> <<>>]
  /\ response = [i \in Runs |-> NoResponse]

\* runUnityTests up to the await of the timer: the configuration is resolved,
\* a missing path is thrown, and the argument list is built.  summaryLines is
\* never read again, so it is not part of the state.
Start(i, params) ==
  /\ alive
  /\ pc[i] = "idle"
  /\ IF unityEditorPath = ""
     THEN /\ pc' = [pc EXCEPT ![i] = "threw"]
          /\ thrown' = [thrown EXCEPT ![i] = MissingEditor]
          /\ UNCHANGED args
     ELSE IF unityProjectPath = ""
     THEN /\ pc' = [pc EXCEPT ![i] = "threw"]
          /\ thrown' = [thrown EXCEPT ![i] = MissingProject]
          /\ UNCHANGED args
     ELSE /\ pc' = [pc EXCEPT ![i] = "timer"]
          /\ args' = [args EXCEPT ![i] = ArgsOf(unityProjectPath, params)]
          /\ UNCHANGED thrown
  /\ UNCHANGED <<config, alive, results, logFile, wrote, stdoutBuf, stderrBuf,
                 closeCode, exitCode, xml, logText, summary, response>>

\* Spawn that first removes the results document of an earlier run
Spawn_Clean(i) ==
  /\ alive
  /\ pc[i] = "timer"
  /\ IF HasNul(args[i])
     THEN /\ pc' = [pc EXCEPT ![i] = "threw"]
          /\ thrown' = [thrown EXCEPT ![i] = InvalidArg]
          /\ UNCHANGED <<alive, results, stdoutBuf, stderrBuf>>
     ELSE /\ results' = NoResults
          /\ stdoutBuf' = [stdoutBuf EXCEPT ![i] = <<>>]
          /\ stderrBuf' = [stderrBuf EXCEPT ![i] = <<>>]
          /\ pc' = [pc EXCEPT ![i] = IF Executable(unityEditorPath)
                                     THEN "running" ELSE "crashed"]
          /\ alive' = Executable(unityEditorPath)
          /\ UNCHANGED thrown
  /\ UNCHANGED <<config, args, logFile, wrote, closeCode, exitCode, xml, logText,
                 summary, response>>

\* spawn(unityEditorPath, args, ...), the listeners, and the await of the close
\* event.  spawn throws for an argument with a null byte.  For an editor path
\* that cannot be executed the child emits "error", which has no listener: the
\* exception is uncaught and ends the server process with every invocation.
Spawn(i) ==
  /\ alive
  /\ pc[i] = "timer"
  /\ IF HasNul(args[i])
     THEN /\ pc' = [pc EXCEPT ![i] = "threw"]
          /\ thrown' = [thrown EXCEPT ![i] = InvalidArg]
          /\ UNCHANGED <<alive, stdoutBuf, stderrBuf>>
     ELSE /\ stdoutBuf' = [stdoutBuf EXCEPT ![i] = <<>>]
          /\ stderrBuf' = [stderrBuf EXCEPT ![i] = <<>>]
          /\ pc' = [pc EXCEPT ![i] = IF Executable(unityEditorPath)
                                     THEN "running" ELSE "crashed"]
          /\ alive' = Executable(unityEditorPath)
          /\ UNCHANGED thrown
  /\ UNCHANGED <<config, args, results, logFile, wrote, closeCode, exitCode, xml,
                 logText, summary, response>>

\* child.stdout.on("data", (d) => { stdoutBuf += String(d) })
ChildStdout(i, d) ==
  /\ alive
  /\ pc[i] = "running"
  /\ Len(stdoutBuf[i]) < MaxChunks
  /\ stdoutBuf' = [stdoutBuf EXCEPT ![i] = Append(@, d)]
  /\ UNCHANGED <<config, alive, args, thrown, results, logFile, pc, wrote, stderrBuf,
                 closeCode, exitCode, xml, logText, summary, response>>

\* child.stderr.on("data", (d) => { stderrBuf += String(d) })
ChildStderr(i, d) ==
  /\ alive
  /\ pc[i] = "running"
  /\ Len(stderrBuf[i]) < MaxChunks
  /\ stderrBuf' = [stderrBuf EXCEPT ![i] = Append(@, d)]
  /\ UNCHANGED <<config, alive, args, thrown, results, logFile, pc, wrote, stdoutBuf,
                 closeCode, exitCode, xml, logText, summary, response>>

\* the child writes the document named by -testResults, once in its run; the
\* path is the same for every invocation
ChildWriteResults(i, doc) ==
  /\ pc[i] = "running"
  /\ wrote[i] = <<>>
  /\ results' = [present |-> TRUE, chunks |-> doc, by |-> i]
  /\ wrote' = [wrote EXCEPT ![i] = <<doc>>]
  /\ UNCHANGED <<config, alive, args, thrown, logFile, pc, stdoutBuf, stderrBuf,
                 closeCode, exitCode, xml, logText, summary, response>>

\* the child writes the log named by -logFile
ChildWriteLog(i, log) ==
  /\ pc[i] = "running"
  /\ logFile' = [present |-> TRUE, lines |-> log.lines, eol |-> log.eol, by |-> i]
  /\ UNCHANGED <<config, alive, args, thrown, results, pc, wrote, stdoutBuf, stderrBuf,
                 closeCode, exitCode, xml, logText, summary, response>>

\* child.on("close", (code) => resolve(code ?? 0))
ChildClose(i, code) ==
  /\ alive
  /\ pc[i] = "running"
  /\ pc' = [pc EXCEPT ![i] = "closed"]
  /\ closeCode' = [closeCode EXCEPT ![i] = code]
  /\ exitCode' = [exitCode EXCEPT ![i] = NullishExit(code)]
  /\ UNCHANGED <<config, alive, args, thrown, results, logFile, wrote, stdoutBuf,
                 stderrBuf, xml, logText, summary, response>>

\* from the read of resultsPath to the read of logPath, or to the return and
\* the handler's response when the exit code is 0
ReadResults(i) ==
  /\ alive
  /\ pc[i] = "closed"
  /\ xml' = [xml EXCEPT ![i] = ReadResultsFile(results)]
  /\ summary' = [summary EXCEPT ![i] =
                   SummaryAfterResults(ReadResultsFile(results), logPath, exitCode[i],
                                       Flatten(stdoutBuf[i]), Flatten(stderrBuf[i]))]
  /\ IF ShouldGrep(exitCode[i])
     THEN /\ pc' = [pc EXCEPT ![i] = "grep"]
          /\ UNCHANGED response
     ELSE /\ pc' = [pc EXCEPT ![i] = "done"]
          /\ response' = [response EXCEPT ![i] = ToolResponse(summary'[i], exitCode[i])]
  /\ UNCHANGED <<config, alive, args, thrown, results, logFile, wrote, stdoutBuf,
                 stderrBuf, closeCode, exitCode, logText>>

\* from the read of logPath to the return and the handler's response
ReadLog(i) ==
  /\ alive
  /\ pc[i] = "grep"
  /\ logText' = [logText EXCEPT ![i] = ReadLogFile(logFile)]
  /\ summary' = [summary EXCEPT ![i] = @ \o GrepSection(ReadLogFile(logFile), logPath)]
  /\ pc' = [pc EXCEPT ![i] = "done"]
  /\ response' = [response EXCEPT ![i] = ToolResponse(summary'[i], exitCode[i])]
  /\ UNCHANGED <<config, alive, args, thrown, results, logFile, wrote, stdoutBuf,
                 stderrBuf, closeCode, exitCode, xml>>

\* Any number of invocations at once: the handler is async, and a request that
\* arrives while another awaits its child starts at once.
Next ==
  \E i \in Runs :
    \/ \E params \in FewParams : Start(i, params)
    \/ Spawn(i)
    \/ \E doc \in FewDocs : ChildWriteResults(i, doc)
    \/ \E log \in FewLogs : ChildWriteLog(i, log)
    \/ \E code \in CloseCodes : ChildClose(i, code)
    \/ ReadResults(i)
    \/ ReadLog(i)
Spec == Init /\ [][Next]_vars

\* Invocations one after the other: a request arrives when the invocations
\* before it have returned.
StartNext(i, params) ==
  /\ \A j \in 1..(i - 1) : pc[j] \in {"done", "threw"}
  /\ Start(i, params)
NextSeq ==
  \E i \in Runs :
    \/ \E params \in FewParams : StartNext(i, params)
    \/ Spawn(i)
    \/ \E doc \in FewDocs : ChildWriteResults(i, doc)
    \/ \E log \in FewLogs : ChildWriteLog(i, log)
    \/ \E code \in CloseCodes : ChildClose(i, code)
    \/ ReadResults(i)
    \/ ReadLog(i)
SpecSeq == Init /\ [][NextSeq]_vars

\* One invocation, over every results document.
NextXml ==
  \/ \E params \in Params : Start(1, params)
  \/ Spawn(1)
  \/ \E doc \in XmlDocs : ChildWriteResults(1, doc)
  \/ \E code \in CloseCodes : ChildClose(1, code)
  \/ ReadResults(1)
  \/ ReadLog(1)
SpecXml == Init /\ [][NextXml]_vars

\* One invocation, over every log and every output of the child.
NextLog ==
  \/ \E params \in Params : Start(1, params)
  \/ Spawn(1)
  \/ \E d \in OutChunks : ChildStdout(1, d)
  \/ \E d \in OutChunks : ChildStderr(1, d)
  \/ \E doc \in OneDoc : ChildWriteResults(1, doc)
  \/ \E log \in Logs : ChildWriteLog(1, log)
  \/ \E code \in CloseCodes : ChildClose(1, code)
  \/ ReadResults(1)
  \/ ReadLog(1)
SpecLog == Init /\ [][NextLog]_vars

\* ================================================================ the claims
Has(s, lit) == \E k \in 1..Len(s) : LitAt(s, k, lit)
Count(s, tok) == Cardinality({k \in 1..Len(s) : s[k] = tok})
StartsWith(s, t) == Len(t) <= Len(s) /\ SubSeq(s, 1, Len(t)) = t
EndsWith(s, t) == Len(t) <= Len(s) /\ SubSeq(s, Len(s) - Len(t) + 1, Len(s)) = t
Places(s, tok) == SelectSeq([k \in 1..Len(s) |-> k], LAMBDA k : s[k] = tok)
AfterRead(i) == pc[i] \in {"grep", "done"}
Done(i) == pc[i] = "done"
GrepHeads(s) ==
  Count(s, GrepHeader(0, 0)[1]) + Count(s, GrepNone[1]) + Count(s, GrepFailed(logPath)[1])
FooterOf(i) == <<"\nLog: ", logPath, "\nExit code: ", ToString(exitCode[i])>>

\* ---- C1
C1_State ==
  \A i \in Runs :
    /\ pc[i] = "threw" =>
         /\ thrown[i] \in {MissingEditor, MissingProject, InvalidArg}
         /\ closeCode[i] = <<>> /\ exitCode[i] = 0
         /\ xml[i].st = "unread" /\ logText[i].st = "unread" /\ ~response[i].sent
    /\ pc[i] \in {"closed", "grep", "done"} => thrown[i] = NoError /\ alive
    /\ AfterRead(i) => Has(summary[i], FooterOf(i)) /\ Count(summary[i], "\nLog: ") = 1
    /\ Done(i) => /\ response[i].sent
                  /\ response[i].text = summary[i]
                  /\ xml[i].st \in {"ok", "error"}
                  /\ logText[i].st \in {"ok", "error", "unread"}
C1_Step ==
  \A i \in Runs :
    /\ pc[i] = "closed" => pc'[i] \in {"closed", "grep", "done"}
    /\ pc[i] = "grep" => pc'[i] \in {"grep", "done"}
    /\ pc[i] = "done" => pc'[i] = "done" /\ summary'[i] = summary[i]
\* C1: an invocation throws, or the server ends, only before a child has
\* closed: for a missing path, an argument that spawn rejects, or an editor
\* that cannot be executed.  Once the child has closed, no step throws: every
\* outcome of the two reads is folded into the summary, which holds the footer
\* "Log: <logPath>" followed by "Exit code: <n>" once, n the returned exit
\* code, and is what is returned.
C1_ReturnsWithFooter == [](C1_State) /\ [][C1_Step]_vars
C1_Witness ==
  Done(1) /\ xml[1].st = "error" /\ logText[1].st = "error" /\ exitCode[1] = 1
  /\ EndsWith(summary[1], GrepFailed(logPath))

\* ---- C2
\* C2: when the results document cannot be read, the summary opens with the
\* notice "No results.xml found or failed to parse." and the footer, holds no
\* "Total:" line, no "Failed cases" header, no dash line and no "Failure
\* message:" section, and the later stages still run: the tails of a non-blank
\* output and, for a non-zero exit code, the log-grep section.
C2_Unreadable ==
  \A i \in Runs :
    (AfterRead(i) /\ xml[i].st = "error") =>
      /\ StartsWith(summary[i], NoResultsNotice \o FooterOf(i))
      /\ Count(summary[i], "Total: ") = 0
      /\ Count(summary[i], "Failed cases (") = 0
      /\ Count(summary[i], "  - ") = 0
      /\ Count(summary[i], "\nFailure message: ") = 0
      /\ Count(summary[i], "Stack: ") = 0
      /\ (Trim(Flatten(stdoutBuf[i])) # <<>>) => Has(summary[i], <<"\n\n[stdout tail]\n">>)
      /\ (Trim(Flatten(stderrBuf[i])) # <<>>) => Has(summary[i], <<"\n\n[stderr tail]\n">>)
      /\ (Done(i) /\ exitCode[i] # 0) => GrepHeads(summary[i]) = 1
C2_Witness ==
  /\ Done(1) /\ xml[1].st = "error" /\ exitCode[1] = 1 /\ logText[1].st = "ok"
  /\ Has(summary[1], NoResultsNotice) /\ Has(summary[1], <<"\n\n[stdout tail]\n">>)

\* ---- C3
\* what the elements of a document are, read off the elements themselves
IsFailedCase(c) == c \in {CaseA, CaseB, CaseAnon}
IsNamedFailedCase(c) == c \in {CaseA, CaseB}
NameOfCase(c) == IF c = CaseA THEN "A" ELSE "B"
FailedTags(doc) == SelectSeq(doc, IsFailedCase)
NamesOf(doc) ==
  LET named == SelectSeq(doc, IsNamedFailedCase)
  IN [k \in 1..Len(named) |-> NameOfCase(named[k])]
\* the dash lines of a summary, in order: each is "  - ", one name, a line end
DashNames(s) ==
  LET at == Places(s, "  - ") IN [k \in 1..Len(at) |-> s[at[k] + 1]]
DashLinesWellFormed(s) ==
  \A k \in 1..Len(s) : s[k] = "  - " => (k + 2 <= Len(s) /\ s[k + 2] = "\n")
HeaderCountOk(s, n) ==
  IF n = 0 THEN Count(s, "Failed cases (") = 0
  ELSE Count(s, "Failed cases (") = 1 /\ Has(s, <<"Failed cases (", ToString(n), "):\n">>)

\* C3 as stated: a readable document with N failed test-case tags gives N dash
\* lines, and the header when N > 0 prints N.
C3_Original ==
  \A i \in Runs :
    (AfterRead(i) /\ xml[i].st = "ok") =>
      /\ HeaderCountOk(summary[i], Len(FailedTags(xml[i].chunks)))
      /\ Len(DashNames(summary[i])) = Len(FailedTags(xml[i].chunks))

\* C3, amended: a readable document with N failed test-case tags gives one
\* dash line for each of those tags that holds name="...", in document order
\* and nothing for a tag without it; the header is absent when N = 0 and
\* prints N, the count of all the failed tags, otherwise.
C3_NamedCases ==
  \A i \in Runs :
    (AfterRead(i) /\ xml[i].st = "ok") =>
      /\ HeaderCountOk(summary[i], Len(FailedTags(xml[i].chunks)))
      /\ DashLinesWellFormed(summary[i])
      /\ DashNames(summary[i]) = NamesOf(xml[i].chunks)
C3_Witness ==
  /\ Done(1) /\ xml[1].st = "ok" /\ xml[1].chunks = <<CaseAnon, CaseB>>
  /\ Has(summary[1], <<"Failed cases (", "2", "):\n", "  - ", "B", "\n", "\nLog: ">>)

\* ---- C4
IsQualifying(c) == c \in {FailBoom, FailOops}
ExpectedDetail(c) ==
  IF c = FailBoom
  THEN <<"\nFailure message: ", "boom", "\n", "Stack: ", "at", " ", "X", "\n">>
  ELSE <<"\nFailure message: ", "oops", "\n">>
\* C4: a readable document gives at most one "Failure message:" section: that
\* of the first failure block, in document order, whose trimmed message is
\* neither empty nor the generic one, with its stack trace iff the block has
\* one; no section when no block qualifies.
C4_FirstQualifying ==
  \A i \in Runs :
    (AfterRead(i) /\ xml[i].st = "ok") =>
      LET q == SelectSeq(xml[i].chunks, IsQualifying)
      IN IF q = <<>>
         THEN Count(summary[i], "\nFailure message: ") = 0 /\ Count(summary[i], "Stack: ") = 0
         ELSE /\ Count(summary[i], "\nFailure message: ") = 1
              /\ Has(summary[i], ExpectedDetail(q[1]) \o FooterOf(i))
              /\ Count(summary[i], "Stack: ") = (IF q[1] = FailBoom THEN 1 ELSE 0)
C4_Witness ==
  /\ Done(1) /\ xml[1].st = "ok" /\ xml[1].chunks = <<FailGeneric, FailOops>>
  /\ Has(summary[1], <<"\nFailure message: ", "oops", "\n", "\nLog: ">>)

\* ---- C5
HasBoth(c) == c \in {HdrBoth, HdrSwap, HdrWide}
ExpectedTotals(c) ==
  IF c = HdrBoth THEN <<"Total: ", "5", ", Failed: ", "2", "\n">>
  ELSE IF c = HdrSwap THEN <<"Total: ", "7", ", Failed: ", "1", "\n">>
  ELSE <<"Total: ", "1", "2", ", Failed: ", "0", "\n">>
\* C5: a readable document with a run-header tag that carries total="N" and
\* failed="M", in either order and with any white space in the tag, gives the
\* line "Total: N, Failed: M" once, N and M the digits of the first such tag.
C5_Totals ==
  \A i \in Runs :
    (AfterRead(i) /\ xml[i].st = "ok") =>
      LET h == SelectSeq(xml[i].chunks, HasBoth)
      IN h # <<>> =>
           Count(summary[i], "Total: ") = 1 /\ Has(summary[i], ExpectedTotals(h[1]))

\* ---- C6
IsMatchingLine(line) == line # <<>> /\ line[1] = "x"
Matching(lines) == SelectSeq(lines, IsMatchingLine)
LastOf(ls, n) == SubSeq(ls, Len(ls) - n + 1, Len(ls))
Least(a, b) == IF a < b THEN a ELSE b
ExpectedGrep(lines) ==
  LET k == Len(Matching(lines))
  IN <<"\n\n[log grep -i 'error' (", ToString(Least(k, GrepMax)), "/", ToString(k), " matches)]\n">>
     \o Join(LastOf(Matching(lines), Least(k, GrepMax)), <<"\n">>)
\* C6: for a non-zero exit code and a readable log with k >= 1 lines that hold
\* "error" in any case, the summary ends with the header "min(k,200)/k
\* matches" and the last min(k,200) of those lines, in their order, and with
\* no other line.
C6_GrepTail ==
  \A i \in Runs :
    (Done(i) /\ exitCode[i] # 0 /\ logText[i].st = "ok" /\ Matching(logText[i].lines) # <<>>) =>
      EndsWith(summary[i], ExpectedGrep(logText[i].lines))
C6_Witness ==
  /\ Done(1) /\ exitCode[1] # 0 /\ logText[1].st = "ok"
  /\ Len(logText[1].lines) > 2 * GrepMax
  /\ Len(Matching(logText[1].lines)) = GrepMax + MaxOver
  /\ Has(summary[1], <<ToString(GrepMax), "/", ToString(GrepMax + MaxOver), " matches)]\n">>)

\* ---- C7
\* C7: the log is read iff the exit code is not 0.  For exit code 0 the log is
\* never read and the summary has no log-grep section; for any other exit
\* code the returned summary ends with exactly one log-grep section: the
\* read-failure notice, the no-match notice, or the header with the matches.
C7_GrepIff ==
  \A i \in Runs :
    /\ (pc[i] \in {"closed", "grep", "done"} /\ exitCode[i] = 0) =>
         logText[i].st = "unread" /\ GrepHeads(summary[i]) = 0
    /\ (AfterRead(i) /\ exitCode[i] = 0) => Done(i)
    /\ (Done(i) /\ exitCode[i] # 0) =>
         /\ logText[i].st \in {"ok", "error"}
         /\ GrepHeads(summary[i]) = 1
         /\ logText[i].st = "error" => EndsWith(summary[i], GrepFailed(logPath))
         /\ (logText[i].st = "ok" /\ Matching(logText[i].lines) = <<>>) =>
              EndsWith(summary[i], GrepNone)
         /\ (logText[i].st = "ok" /\ Matching(logText[i].lines) # <<>>) =>
              Count(summary[i], GrepHeader(0, 0)[1]) = 1
C7_Witness ==
  /\ Done(1) /\ exitCode[1] # 0 /\ logText[1].st = "ok"
  /\ Len(logText[1].lines) > 1 /\ Matching(logText[1].lines) = <<>>
  /\ EndsWith(summary[1], GrepNone)

\* ---- C8
\* C8: an invocation whose child wrote a results document builds its summary
\* from that document, and no invocation reads a results document or a log
\* that the child of another invocation wrote, whatever the other invocation
\* does meanwhile.
C8_OwnArtifacts ==
  \A i \in Runs :
    /\ (AfterRead(i) /\ wrote[i] # <<>>) =>
         /\ xml[i].st = "ok" /\ xml[i].chunks = wrote[i][1]
         /\ StartsWith(summary[i], ParseResults(Flatten(wrote[i][1])))
    /\ AfterRead(i) => xml[i].by \notin Runs \ {i}
    /\ (Done(i) /\ logText[i].st = "ok") => logText[i].by \notin Runs \ {i}

\* ---- C9
\* C9: the exit code is the close code, and 0 for a null close code; a run
\* that a signal ended returns exitCode 0 and isError false and has no
\* log-grep section, as a run that exited with 0 does.
C9_NullIsZero ==
  \A i \in Runs :
    (pc[i] \in {"closed", "grep", "done"}) =>
      /\ closeCode[i] # <<>> => exitCode[i] = closeCode[i][1]
      /\ closeCode[i] = <<>> =>
           /\ exitCode[i] = 0
           /\ pc[i] # "grep"
           /\ Done(i) => /\ ~response[i].isError
                         /\ logText[i].st = "unread"
                         /\ GrepHeads(summary[i]) = 0
      /\ Done(i) => response[i].isError = (closeCode[i] \notin {<<>>, <<0>>})
C9_Witness ==
  /\ Done(1) /\ closeCode[1] = <<>> /\ exitCode[1] = 0 /\ ~response[1].isError
  /\ logFile.present /\ Matching(logFile.lines) # <<>>

\* ---- C10
Writers(i) == {j \in 1..(i - 1) : wrote[j] # <<>>}
\* C10: the results document changes only when a running child writes it (no
\* invocation deletes or empties it), and an invocation reads what the path
\* holds when its child has closed: in a sequence of invocations, one whose
\* child wrote no document reports the header, totals, failed cases and
\* failure detail of the document of the last earlier invocation whose child
\* wrote one, with its own exit code; when no child has written one, it
\* reports what the path held when the server started.
C10_StaleState ==
  \A i \in Runs :
    /\ (AfterRead(i) /\ wrote[i] = <<>> /\ Writers(i) # {}) =>
         LET j == MaxOf(Writers(i))
         IN /\ xml[i].st = "ok" /\ xml[i].by = j /\ xml[i].chunks = wrote[j][1]
            /\ StartsWith(summary[j], ParseResults(Flatten(wrote[j][1])))
            /\ StartsWith(summary[i], ParseResults(Flatten(wrote[j][1])) \o FooterOf(i))
    /\ (AfterRead(i) /\ \A j \in Runs : wrote[j] = <<>>) =>
         /\ xml[i] = ReadResultsFile(results) /\ xml[i].by = 0
         /\ StartsWith(summary[i], ResultsSection(xml[i]) \o FooterOf(i))
C10_FileStep ==
  /\ results' # results =>
       \E i \in Runs : pc[i] = "running" /\ results'.present /\ results'.by = i
  /\ \A i \in Runs :
       (pc[i] = "closed" /\ pc'[i] # "closed") => xml'[i] = ReadResultsFile(results)
C10_Stale == [](C10_StaleState) /\ [][C10_FileStep]_vars
C10_Witness ==
  /\ Done(2) /\ wrote[2] = <<>> /\ wrote[1] = <<<<HdrBoth>>>> /\ exitCode[2] = 1 /\ exitCode[1] = 0
  /\ Has(summary[2], <<"Total: ", "5", ", Failed: ", "2", "\n", "\nLog: ", logPath, "\nExit code: ", "1">>)
====
